---- MODULE Spec2Model ----
(***************************************************************************)
(* Assignment-and-propagation core of super-simple-sat.                    *)
(*                                                                         *)
(*   src/src/assignment2/mod.rs   PropagationQueue, VariableAssignment,    *)
(*                                Assignment (the orchestrator)            *)
(*   src/src/assignment/model.rs  Model, LastModel                         *)
(*                                                                         *)
(* The peer modules trail.rs, watch_list.rs and the bounded containers of  *)
(* utils are modelled from the design document (spec.md 4.1, 4.3, 4.4);    *)
(* everything else is translated from the two source files above.          *)
(***************************************************************************)
EXTENDS Integers, Sequences, FiniteSets, TLC

\* ------------------------------------------------------------------ bounds
\* Variables the driver may register in the orchestrator specification.
MaxVars == 3
\* Variables of the stand-alone queue specification.
QVars == 2
\* Literals the driver may have pending in the propagation queue.
MaxQueue == 2
\* Clauses the driver may register, and their length.
MaxClauses == 2
MaxClauseLen == 3
\* Decision levels the driver may open.
MaxLevel == 1
\* Variables of an assignment handed to Model::from_reuse.
MaxModelVars == 4

VARIABLES
    num_variables,      \* Assignment.num_variables
    trail,              \* Assignment.trail: [entries, level]
    assignments,        \* Assignment.assignments: the BoundedMap's slots
    watchers,           \* Assignment.watchers: literal -> clause ids
    propagation_queue,  \* Assignment.propagation_queue
    clause_db,          \* the external ClauseDb: sequence of clauses
    pc,                 \* where the single thread of control is
    op,                 \* the last operation, its argument and its result
    fifo,               \* history: literals admitted and not yet popped
    sum_registered,     \* history: sum of the n of the successful registrations
    assigned_level,     \* history: decision level at which a variable was committed
    conflicted,         \* history: some propagate call has returned Conflict
    late_init,          \* history: a clause was registered after an assignment
    last_model,         \* the target Model of from_reuse: its bitmap
    given               \* history: the assignment last handed to from_reuse

model_vars == <<last_model, given>>

history == <<sum_registered, assigned_level, conflicted, late_init>>

vars == <<num_variables, trail, assignments, watchers, propagation_queue,
          clause_db, pc, op, fifo, history, model_vars>>

\* ---------------------------------------------------------------- literals
\* VarAssignment::{True, False}; "None" is Option::None.
VarAssignment == {"True", "False"}

Literals(n) == [var : 0 .. n - 1, pos : BOOLEAN]

\* Literal::assignment
LitAssignment(lit) == IF lit.pos THEN "True" ELSE "False"

\* !literal
Negate(lit) == [var |-> lit.var, pos |-> ~lit.pos]

NoLit == [var |-> -1, pos |-> TRUE]

\* ------------------------------------------------- VariableAssignment
\* BoundedMap::len: the number of occupied slots.
BoundedMapLen(a) == Cardinality({i \in 1 .. Len(a) : a[i] # "None"})

\* BoundedMap::increase_capacity_to: grows to at least new_cap slots.
IncreaseCapacityTo(a, new_cap) ==
    IF new_cap <= Len(a) THEN a
    ELSE a \o [i \in 1 .. new_cap - Len(a) |-> "None"]

\* VariableAssignment::len_assigned
LenAssigned(a) == BoundedMapLen(a)

\* VariableAssignment::get; "Invalid" is the panic of the expect.
Get(a, variable) ==
    IF variable < Len(a) THEN a[variable + 1] ELSE "Invalid"

\* is_satisfied that takes an unassigned variable for a false one
\* (unwrap_or_default in place of map).
IsSatisfied_UnassignedIsFalse(a, lit) ==
    LET value == Get(a, lit.var) IN
    IF value = "Invalid" THEN value
    ELSE IF (lit.pos /\ value = "True") \/ (~lit.pos /\ value # "True")
         THEN "true" ELSE "false"

\* VariableAssignment::is_satisfied: "true" and "false" are Some(true) and
\* Some(false), "None" is the absent result.
IsSatisfied(a, lit) ==
    LET value == Get(a, lit.var) IN
    IF value \notin VarAssignment THEN value
    ELSE IF (lit.pos /\ value = "True") \/ (~lit.pos /\ value # "True")
         THEN "true" ELSE "false"

\* VariableAssignment::assign, for a valid unassigned variable.
Assign(a, variable, value) == [a EXCEPT ![variable + 1] = value]

\* VariableAssignment::unassign, for a valid assigned variable.
Unassign(a, variable) == [a EXCEPT ![variable + 1] = "None"]

\* ---------------------------------------------------- PropagationQueue
\* push that also enqueues a literal whose variable is already true.
Push_EnqueueWhenTrue(queue, lit, a) ==
    LET value == Get(a, lit.var) IN
    CASE value = "True"  -> [queue |-> Append(queue, lit), res |-> "AlreadySatisfied"]
      [] value = "False" -> [queue |-> <<>>, res |-> "Conflict"]
      [] value = "None"  -> [queue |-> Append(queue, lit), res |-> "Ok"]
      [] OTHER           -> [queue |-> queue, res |-> "Panic"]

\* push that reports a conflict without clearing the queue.
Push_ConflictKeepsQueue(queue, lit, a) ==
    LET value == Get(a, lit.var) IN
    CASE value = "True"  -> [queue |-> queue, res |-> "AlreadySatisfied"]
      [] value = "False" -> [queue |-> queue, res |-> "Conflict"]
      [] value = "None"  -> [queue |-> Append(queue, lit), res |-> "Ok"]
      [] OTHER           -> [queue |-> queue, res |-> "Panic"]

\* PropagationQueue::push: the queue after the call and its result.
Push(queue, lit, a) ==
    LET value == Get(a, lit.var) IN
    CASE value = "True"  -> [queue |-> queue, res |-> "AlreadySatisfied"]
      [] value = "False" -> [queue |-> <<>>, res |-> "Conflict"]
      [] value = "None"  -> [queue |-> Append(queue, lit), res |-> "Ok"]
      [] OTHER           -> [queue |-> queue, res |-> "Panic"]

\* pop that takes the most recently pushed literal (pop_back).
Pop_Back(queue) ==
    IF queue = <<>> THEN [lit |-> NoLit, queue |-> queue]
    ELSE [lit |-> queue[Len(queue)], queue |-> SubSeq(queue, 1, Len(queue) - 1)]

\* PropagationQueue::pop: the literal returned (NoLit for None) and the rest.
Pop(queue) ==
    IF queue = <<>> THEN [lit |-> NoLit, queue |-> queue]
    ELSE [lit |-> Head(queue), queue |-> Tail(queue)]

\* ===================================================== queue specification
\* The pub types PropagationQueue and VariableAssignment driven directly:
\* push, pop, assign and unassign in any order, from an empty queue and a
\* VariableAssignment with QVars registered variables.
NoOp == [name |-> "none", lit |-> NoLit, res |-> "none", before |-> 0, arg |-> 0]

orchestrator_vars == <<num_variables, trail, watchers, clause_db, pc, history>>

NoHistory ==
    /\ sum_registered = 0
    /\ assigned_level = [v \in 0 .. MaxVars |-> -1]
    /\ conflicted = FALSE
    /\ late_init = FALSE
    /\ last_model = <<>>
    /\ given = <<>>

QInit ==
    /\ num_variables = QVars
    /\ trail = [entries |-> <<>>, level |-> 0, len |-> 0]
    /\ assignments = [i \in 1 .. QVars |-> "None"]
    /\ watchers = [len |-> 0, lists |-> <<>>]
    /\ NoHistory
    /\ propagation_queue = <<>>
    /\ clause_db = <<>>
    /\ pc = "queue"
    /\ op = NoOp
    /\ fifo = <<>>

QPush(lit) ==
    /\ Len(propagation_queue) < MaxQueue
    /\ LET r == Push(propagation_queue, lit, assignments) IN
        /\ propagation_queue' = r.queue
        /\ op' = [NoOp EXCEPT !.name = "push", !.lit = lit, !.res = r.res,
                              !.before = Len(propagation_queue)]
        /\ fifo' = CASE r.res = "Ok" -> Append(fifo, lit)
                     [] r.res = "Conflict" -> <<>>
                     [] OTHER -> fifo
    /\ UNCHANGED <<model_vars, assignments, orchestrator_vars>>

QPop ==
    /\ LET r == Pop(propagation_queue) IN
        /\ propagation_queue' = r.queue
        /\ op' = [NoOp EXCEPT !.name = "pop", !.lit = r.lit,
                              !.before = Len(propagation_queue)]
    /\ fifo' = IF fifo = <<>> THEN fifo ELSE Tail(fifo)
    /\ UNCHANGED <<model_vars, assignments, orchestrator_vars>>

QAssign(variable, value) ==
    /\ Get(assignments, variable) = "None"
    /\ assignments' = Assign(assignments, variable, value)
    /\ op' = [NoOp EXCEPT !.name = "assign"]
    /\ UNCHANGED <<model_vars, propagation_queue, fifo, orchestrator_vars>>

QUnassign(variable) ==
    /\ Get(assignments, variable) \in VarAssignment
    /\ assignments' = Unassign(assignments, variable)
    /\ op' = [NoOp EXCEPT !.name = "unassign"]
    /\ UNCHANGED <<model_vars, propagation_queue, fifo, orchestrator_vars>>

QNext ==
    \/ \E lit \in Literals(QVars) : QPush(lit)
    \/ QPop
    \/ \E v \in 0 .. QVars - 1, value \in VarAssignment : QAssign(v, value)
    \/ \E v \in 0 .. QVars - 1 : QUnassign(v)

SpecQueue == QInit /\ [][QNext]_vars

\* ------------------------------------------------ claims on the queue
QueueVarOf(lit) == Get(assignments, lit.var)

\* C6: push returns AlreadySatisfied exactly when the pushed literal is
\* satisfied under the assignment (is_satisfied = Some(true)) and Conflict
\* exactly when it is in conflict with it (is_satisfied = Some(false)), for
\* both polarities.  push does not touch the assignment, so the state after
\* the call still shows the assignment the call saw.
C6_PushResultIsSatisfaction ==
    op.name = "push" =>
        /\ op.res = "AlreadySatisfied" <=> IsSatisfied(assignments, op.lit) = "true"
        /\ op.res = "Conflict" <=> IsSatisfied(assignments, op.lit) = "false"

C9_QueueIsFifo ==
    [][/\ (op'.name = "push" /\ QueueVarOf(op'.lit) = "None") =>
            /\ op'.res = "Ok"
            /\ Len(propagation_queue') = Len(propagation_queue) + 1
       /\ op'.name = "pop" =>
            op'.lit = (IF fifo = <<>> THEN NoLit ELSE Head(fifo))]_vars

C9_Witness ==
    /\ op.name = "pop" /\ op.lit # NoLit
    /\ propagation_queue # <<>> /\ Head(propagation_queue) # op.lit

\* C13: is_satisfied is tri-state for every variable and polarity: over a
\* true variable the positive literal yields Some(true) and the negative one
\* Some(false), over a false variable the results are swapped, over an
\* unassigned variable the result is absent for both polarities.
C13_IsSatisfiedIsTriState ==
    \A v \in 0 .. QVars - 1 :
        LET positive == IsSatisfied(assignments, [var |-> v, pos |-> TRUE])
            negative == IsSatisfied(assignments, [var |-> v, pos |-> FALSE])
        IN /\ Get(assignments, v) = "True" =>
                positive = "true" /\ negative = "false"
           /\ Get(assignments, v) = "False" =>
                positive = "false" /\ negative = "true"
           /\ Get(assignments, v) = "None" =>
                positive = "None" /\ negative = "None"

\* One variable has been assigned (true or false) while another is
\* unassigned.
C13_Witness ==
    /\ op.name = "assign"
    /\ \E v, w \in 0 .. QVars - 1 :
        /\ Get(assignments, v) \in VarAssignment
        /\ Get(assignments, w) = "None"


\* ========================================================== the containers
\* The largest number of variables a bounded container can be grown to.
VarLimit == MaxVars

\* The least element of a non-empty set of numbers.
Min(S) == CHOOSE x \in S : \A y \in S : x <= y

\* Every ordering of the elements of a finite set.
Orderings(S) ==
    {s \in [1 .. Cardinality(S) -> S] : \A i, j \in DOMAIN s : s[i] = s[j] => i = j}

\* ------------------------------------------------------------------ Trail
\* Trail::register_new_variables
TrailRegister(t, n) ==
    IF t.len + n > VarLimit THEN [ok |-> FALSE, trail |-> t]
    ELSE [ok |-> TRUE, trail |-> [t EXCEPT !.len = t.len + n]]

\* Trail::push: the literal committed at the current level.  No operation
\* of Assignment calls it.
TrailPush(t, lit) ==
    [t EXCEPT !.entries = Append(t.entries, [lit |-> lit, level |-> t.level])]

\* The literals Trail::pop_to_level hands to its callback, most recent first.
RECURSIVE PoppedLits(_, _)
PoppedLits(entries, level) ==
    IF entries = <<>> \/ entries[Len(entries)].level <= level THEN <<>>
    ELSE <<entries[Len(entries)].lit>>
         \o PoppedLits(SubSeq(entries, 1, Len(entries) - 1), level)

\* Trail::pop_to_level: the trail it leaves.
PopToLevel(t, level) ==
    [t EXCEPT !.entries = SubSeq(t.entries, 1,
                                 Len(t.entries) - Len(PoppedLits(t.entries, level))),
              !.level = level]

\* Trail::bump_decision_level: a branching decision opens the next level.
TrailBump(t) == [t EXCEPT !.level = t.level + 1]

\* -------------------------------------------------------------- WatchList
NoWatchers == [len |-> 0, lists |-> [l \in Literals(VarLimit) |-> {}]]

\* WatchList::register_new_variables
WatchRegister(w, total) ==
    IF total > VarLimit THEN [ok |-> FALSE, watchers |-> w]
    ELSE [ok |-> TRUE, watchers |-> [w EXCEPT !.len = total]]

\* WatchList::register_for_lit
RegisterForLit(w, lit, clause_id) ==
    [w EXCEPT !.lists[lit] = @ \cup {clause_id}]

\* One clause of the scan of WatchList::propagate: lit has just become true,
\* clause id watches its complement.  st is [lists, queue, res].
ScanClause(id, lit, db, a, st) ==
    LET clause == db[id]
        false_lit == Negate(lit)
        idx == 1 .. Len(clause)
        invalid == \E i \in idx : Get(a, clause[i].var) = "Invalid"
        satisfied == \E i \in idx :
            clause[i] # false_lit /\ IsSatisfied(a, clause[i]) = "true"
        candidates == {i \in idx : /\ id \notin st.lists[clause[i]]
                                   /\ IsSatisfied(a, clause[i]) # "false"}
        unassigned == {i \in idx : Get(a, clause[i].var) = "None"}
    IN  CASE invalid -> [st EXCEPT !.res = "Panic"]
          [] ~invalid /\ satisfied -> st
          [] ~invalid /\ ~satisfied /\ candidates # {} ->
                [st EXCEPT !.lists[false_lit] = @ \ {id},
                           !.lists[clause[Min(candidates)]] = @ \cup {id}]
          [] ~invalid /\ ~satisfied /\ candidates = {}
               /\ Cardinality(unassigned) = 1 ->
                LET r == Push(st.queue, clause[Min(unassigned)], a) IN
                [st EXCEPT !.queue = r.queue,
                           !.res = IF r.res = "Conflict" THEN "Conflict" ELSE @]
          [] ~invalid /\ ~satisfied /\ candidates = {} /\ unassigned = {} ->
                [st EXCEPT !.res = "Conflict"]
          [] OTHER -> st

RECURSIVE WatchScan(_, _, _, _, _)
WatchScan(order, lit, db, a, st) ==
    IF order = <<>> THEN st
    ELSE LET r == ScanClause(Head(order), lit, db, a, st) IN
         IF r.res # "Consistent" THEN r
         ELSE WatchScan(Tail(order), lit, db, a, r)

\* WatchList::propagate: the clauses watching the complement of lit are
\* scanned in the given order; the scan stops at the first conflict.
WatchListPropagate(lists, lit, db, a, queue, order) ==
    WatchScan(order, lit, db, a,
              [lists |-> lists, queue |-> queue, res |-> "Consistent"])

\* ========================================================= the orchestrator
\* The clauses the driver may hand over: 1 .. MaxClauseLen literals over
\* registered variables, each variable once, in the order of the variables.
Clauses(n) ==
    {c \in UNION {[1 .. k -> Literals(n)] : k \in 1 .. MaxClauseLen} :
        \A i, j \in DOMAIN c : i < j => c[i].var < c[j].var}

Assigned(v) == Get(assignments, v) \in VarAssignment

\* Assignment::default
Init ==
    /\ num_variables = 0
    /\ trail = [entries |-> <<>>, level |-> 0, len |-> 0]
    /\ assignments = <<>>
    /\ watchers = NoWatchers
    /\ propagation_queue = <<>>
    /\ clause_db = <<>>
    /\ pc = "idle"
    /\ op = NoOp
    /\ fifo = <<>>
    /\ NoHistory

\* VariableAssignment::register_new_variables
VaRegister(a, new_variables) ==
    LET new_len == BoundedMapLen(a) + new_variables IN
    IF new_len > VarLimit THEN [ok |-> FALSE, assignments |-> a]
    ELSE [ok |-> TRUE, assignments |-> IncreaseCapacityTo(a, new_len)]

\* Assignment::register_new_variables
RegisterNewVariables(new_variables) ==
    /\ pc = "idle"
    /\ LET total_variables == num_variables + new_variables
           t == TrailRegister(trail, new_variables)
           a == VaRegister(assignments, new_variables)
           w == WatchRegister(watchers, total_variables)
           ok == t.ok /\ a.ok /\ w.ok
       IN /\ trail' = t.trail
          /\ assignments' = IF t.ok THEN a.assignments ELSE assignments
          /\ watchers' = IF t.ok /\ a.ok THEN w.watchers ELSE watchers
          /\ num_variables' = IF ok THEN num_variables + new_variables
                              ELSE num_variables
          /\ sum_registered' = IF ok THEN sum_registered + new_variables
                               ELSE sum_registered
          /\ op' = [NoOp EXCEPT !.name = "register_new_variables",
                                !.arg = new_variables,
                                !.res = IF ok THEN "Ok" ELSE "Err"]
    /\ UNCHANGED <<model_vars, propagation_queue, clause_db, pc, fifo, assigned_level,
                   conflicted, late_init>>

\* initialize_watchers that registers the first literal only (take(1)).
InitialWatchers_FirstOnly(w, clause, clause_id) ==
    RegisterForLit(w, clause[1], clause_id)

\* The watch lists after Assignment::initialize_watchers.
InitialWatchers(w, clause, clause_id) ==
    IF Len(clause) = 1 THEN RegisterForLit(w, clause[1], clause_id)
    ELSE RegisterForLit(RegisterForLit(w, clause[1], clause_id),
                        clause[2], clause_id)

\* Assignment::initialize_watchers, for a clause the driver has just added
\* to the clause database.
InitializeWatchers(clause) ==
    /\ pc = "idle"
    /\ clause_db' = Append(clause_db, clause)
    /\ watchers' = InitialWatchers(watchers, clause, Len(clause_db) + 1)
    /\ late_init' = (late_init \/ \E v \in 0 .. num_variables - 1 : Assigned(v))
    /\ op' = [NoOp EXCEPT !.name = "initialize_watchers"]
    /\ UNCHANGED <<model_vars, num_variables, trail, assignments, propagation_queue, pc,
                   fifo, sum_registered, assigned_level, conflicted>>

\* Assignment::enqueue_assumption
EnqueueAssumption(assumption) ==
    /\ pc = "idle"
    /\ Len(propagation_queue) < MaxQueue
    /\ LET r == Push(propagation_queue, assumption, assignments) IN
        /\ propagation_queue' = r.queue
        /\ pc' = IF r.res = "Panic" THEN "panicked" ELSE pc
        /\ op' = [NoOp EXCEPT !.name = "enqueue_assumption", !.res = r.res]
    /\ UNCHANGED <<model_vars, num_variables, trail, assignments, watchers, clause_db,
                   fifo, history>>

\* propagate that goes on with the queue after the watch list's conflict.
LoopOutcome_IgnoresConflict(res) ==
    IF res = "Panic" THEN "panicked" ELSE "propagate"

\* Where Assignment::propagate goes after the watch list's scan: a conflict
\* returns from the call, otherwise the loop goes on.
LoopOutcome(res) ==
    CASE res = "Conflict" -> "idle"
      [] res = "Panic" -> "panicked"
      [] OTHER -> "propagate"

\* One iteration of the loop of Assignment::propagate (the first one enters
\* the call): pop, assign, and the watch list's scan; a conflict returns.
PropagateLoop ==
    /\ pc \in {"idle", "propagate"}
    /\ propagation_queue # <<>>
    /\ LET popped == Pop(propagation_queue)
           lit == popped.lit
       IN IF Get(assignments, lit.var) # "None"
          THEN \* insert has overwritten the value of a valid variable when
               \* the assertion of VariableAssignment::assign fails
               /\ pc' = "panicked"
               /\ propagation_queue' = popped.queue
               /\ assignments' = IF Get(assignments, lit.var) = "Invalid"
                                 THEN assignments
                                 ELSE Assign(assignments, lit.var, LitAssignment(lit))
               /\ op' = [NoOp EXCEPT !.name = "propagate", !.res = "Panic"]
               /\ UNCHANGED <<model_vars, watchers, assigned_level, conflicted>>
          ELSE LET a == Assign(assignments, lit.var, LitAssignment(lit)) IN
               \E order \in Orderings(watchers.lists[Negate(lit)]) :
                 LET r == WatchListPropagate(watchers.lists, lit, clause_db, a,
                                             popped.queue, order)
                 IN /\ assignments' = a
                    /\ watchers' = [watchers EXCEPT !.lists = r.lists]
                    /\ propagation_queue' = r.queue
                    /\ assigned_level' =
                           [assigned_level EXCEPT ![lit.var] = trail.level]
                    /\ pc' = LoopOutcome(r.res)
                    /\ conflicted' = (conflicted \/ LoopOutcome(r.res) = "idle")
                    /\ op' = [NoOp EXCEPT !.name = "propagate",
                                          !.res = CASE pc' = "idle" -> "Conflict"
                                                    [] pc' = "panicked" -> "Panic"
                                                    [] OTHER -> "running"]
    /\ UNCHANGED <<model_vars, num_variables, trail, clause_db, fifo, sum_registered,
                   late_init>>

\* propagate that drops every watch when it finds the queue empty.
PropagateReturn_DropsWatchers ==
    /\ pc \in {"idle", "propagate"}
    /\ propagation_queue = <<>>
    /\ pc' = "idle"
    /\ watchers' = [watchers EXCEPT !.lists = NoWatchers.lists]
    /\ op' = [NoOp EXCEPT !.name = "propagate", !.res = "Consistent"]
    /\ UNCHANGED <<model_vars, num_variables, trail, assignments,
                   propagation_queue, clause_db, fifo, history>>

\* The queue is empty: Assignment::propagate returns Consistent.
PropagateReturn ==
    /\ pc \in {"idle", "propagate"}
    /\ propagation_queue = <<>>
    /\ pc' = "idle"
    /\ op' = [NoOp EXCEPT !.name = "propagate", !.res = "Consistent"]
    /\ UNCHANGED <<model_vars, num_variables, trail, assignments, watchers,
                   propagation_queue, clause_db, fifo, history>>

\* The driver opens a new decision level on the trail.
BumpDecisionLevel ==
    /\ pc = "idle"
    /\ trail.level < MaxLevel
    /\ trail' = TrailBump(trail)
    /\ op' = [NoOp EXCEPT !.name = "bump_decision_level"]
    /\ UNCHANGED <<model_vars, num_variables, assignments, watchers, propagation_queue,
                   clause_db, pc, fifo, history>>

\* The assignment after the callback of reset_to_level has run on every
\* popped literal ("Panic" if unassign's assertion fails).
RECURSIVE UnassignAll(_, _)
UnassignAll(a, lits) ==
    IF lits = <<>> THEN a
    ELSE IF Get(a, Head(lits).var) \notin VarAssignment THEN "Panic"
    ELSE UnassignAll(Unassign(a, Head(lits).var), Tail(lits))

\* Assignment::reset_to_level
ResetToLevel(level) ==
    /\ pc = "idle"
    /\ LET popped == PoppedLits(trail.entries, level)
           a == UnassignAll(assignments, popped)
       IN /\ trail' = PopToLevel(trail, level)
          /\ assignments' = IF a = "Panic" THEN assignments ELSE a
          /\ pc' = IF a = "Panic" THEN "panicked" ELSE pc
          /\ assigned_level' =
                 [v \in DOMAIN assigned_level |->
                     IF \E i \in DOMAIN popped : popped[i].var = v
                     THEN -1 ELSE assigned_level[v]]
    /\ op' = [NoOp EXCEPT !.name = "reset_to_level", !.arg = level]
    /\ UNCHANGED <<model_vars, num_variables, watchers, propagation_queue, clause_db, fifo,
                   sum_registered, conflicted, late_init>>

\* The orchestrator under a driver that registers its variables in one batch
\* and stays at decision level 0: clauses, assumptions, propagation.
Next ==
    \/ \E n \in 1 .. MaxVars : num_variables = 0 /\ RegisterNewVariables(n)
    \/ /\ Len(clause_db) < MaxClauses
       /\ \E clause \in Clauses(num_variables) : InitializeWatchers(clause)
    \/ \E lit \in Literals(num_variables) : EnqueueAssumption(lit)
    \/ PropagateLoop
    \/ PropagateReturn
    \/ \E level \in 0 .. trail.level : ResetToLevel(level)

Spec == Init /\ [][Next]_vars

\* The orchestrator under a driver that registers variables at any time and
\* opens decision levels, over an empty clause database.
TrailNext ==
    \/ \E n \in 1 .. MaxVars : RegisterNewVariables(n)
    \/ \E lit \in Literals(num_variables) : EnqueueAssumption(lit)
    \/ PropagateLoop
    \/ PropagateReturn
    \/ BumpDecisionLevel
    \/ \E level \in 0 .. trail.level : ResetToLevel(level)

SpecTrail == Init /\ [][TrailNext]_vars

\* ------------------------------------------- claims on the orchestrator
ReturnedConsistent == op.name = "propagate" /\ op.res = "Consistent"

ClauseIds == DOMAIN clause_db

\* Exactly one literal of the clause is unassigned and every other is false.
IsUnit(clause) ==
    \E i \in DOMAIN clause :
        /\ Get(assignments, clause[i].var) = "None"
        /\ \A j \in DOMAIN clause \ {i} : IsSatisfied(assignments, clause[j]) = "false"

\* Every literal of the clause is false.
IsFalsified(clause) ==
    \A i \in DOMAIN clause : IsSatisfied(assignments, clause[i]) = "false"

EveryClauseHasTwoLiterals == \A id \in ClauseIds : Len(clause_db[id]) >= 2

\* C1 as stated: with every clause (of at least 2 literals) registered before
\* any assignment, whenever propagate returns Consistent no clause is unit
\* (one unassigned literal, every other literal false).
C1_UnitPropagationComplete ==
    (ReturnedConsistent /\ ~late_init /\ EveryClauseHasTwoLiterals) =>
        \A id \in ClauseIds : ~IsUnit(clause_db[id])

\* C1 amended: the same, for a propagate call that no call returning Conflict
\* has preceded.
C1_UnitPropagationCompleteBeforeConflict ==
    (ReturnedConsistent /\ ~late_init /\ EveryClauseHasTwoLiterals /\ ~conflicted) =>
        \A id \in ClauseIds : ~IsUnit(clause_db[id])

\* The scenario of C1: a clause (a or b), a made false through the queue,
\* propagate returned Consistent and b is true.
C1_Witness ==
    /\ ReturnedConsistent /\ ~late_init /\ ~conflicted
    /\ \E id \in ClauseIds :
        /\ Len(clause_db[id]) = 2
        /\ clause_db[id][1].pos /\ clause_db[id][2].pos
        /\ IsSatisfied(assignments, clause_db[id][1]) = "false"
        /\ IsSatisfied(assignments, clause_db[id][2]) = "true"

\* C2 as stated: with every clause registered before any assignment, whenever
\* propagate returns Consistent no clause has all its literals false.
C2_ConflictDetectionComplete ==
    (ReturnedConsistent /\ ~late_init) =>
        \A id \in ClauseIds : ~IsFalsified(clause_db[id])

\* C2 amended: the same, for a propagate call that no call returning Conflict
\* has preceded.
C2_ConflictDetectionCompleteBeforeConflict ==
    (ReturnedConsistent /\ ~late_init /\ ~conflicted) =>
        \A id \in ClauseIds : ~IsFalsified(clause_db[id])

\* The scenario of C2: the unit clauses (x) and (not x) are registered, x was
\* made true through the queue and propagate returned Conflict.
C2_Witness ==
    /\ op.name = "propagate" /\ op.res = "Conflict" /\ ~late_init
    /\ \E i, j \in ClauseIds :
        /\ Len(clause_db[i]) = 1 /\ Len(clause_db[j]) = 1
        /\ clause_db[i][1].pos /\ clause_db[j][1] = Negate(clause_db[i][1])
        /\ IsSatisfied(assignments, clause_db[i][1]) = "true"

\* C3: reset_to_level(L) unassigns the variables that were committed at a
\* level above L, leaves every other variable with its value, and sets the
\* current level to L.
C3_ResetUnassignsAboveLevel ==
    [][op'.name = "reset_to_level" =>
          /\ trail'.level = op'.arg
          /\ \A v \in 0 .. num_variables - 1 :
                IF Assigned(v) /\ assigned_level[v] > op'.arg
                THEN Get(assignments', v) = "None"
                ELSE Get(assignments', v) = Get(assignments, v)]_vars

\* C4: in every state, between two iterations of the loop of propagate too,
\* the propagation queue holds no literal whose variable is assigned.
C4_QueueHoldsNoAssignedVariable ==
    \A i \in DOMAIN propagation_queue :
        Get(assignments, propagation_queue[i].var) \notin VarAssignment

\* C5: the total variable count is the sum of the registered n, every
\* variable below the total can be queried with VariableAssignment::get, and
\* every index at or above it is out of range.
C5_RegisteredVariablesQueryable ==
    /\ num_variables = sum_registered
    /\ \A v \in 0 .. MaxVars :
        (Get(assignments, v) # "Invalid") <=> (v < num_variables)

\* C12: propagate called with an empty queue returns Consistent and leaves
\* the variable assignment, the trail (entries and level), the watch lists
\* and the queue unchanged.
C12_PropagateOnEmptyQueueIsNoOp ==
    [][(pc = "idle" /\ propagation_queue = <<>> /\ op'.name = "propagate") =>
          /\ op'.res = "Consistent"
          /\ pc' = "idle"
          /\ assignments' = assignments
          /\ trail' = trail
          /\ watchers' = watchers
          /\ propagation_queue' = propagation_queue]_vars

\* propagate has returned Consistent over a database with a watched clause
\* while no variable has a value yet: no call can have popped a literal, so
\* the call found the queue empty.
C12_Witness ==
    /\ ReturnedConsistent
    /\ num_variables > 0 /\ clause_db # <<>>
    /\ \E l \in Literals(num_variables) : watchers.lists[l] # {}
    /\ \A v \in 0 .. num_variables - 1 : ~Assigned(v)

\* C14: propagate never commits a variable that is already assigned: the
\* variable of every literal it pops is unassigned when it is popped,
\* whatever enqueue_assumption and the watch list have enqueued.
C14_PropagateCommitsUnassignedOnly ==
    [][(propagation_queue # <<>> /\ op'.name = "propagate") =>
          Get(assignments, Head(propagation_queue).var) = "None"]_vars

\* The positions of the trail that hold an entry for variable v.
TrailEntriesOf(v) == {i \in DOMAIN trail.entries : trail.entries[i].lit.var = v}

\* C15: between operations of the orchestrator the trail and the assignment
\* agree: a variable is assigned if and only if the trail holds exactly one
\* entry for it, and the literal of that entry has the polarity of the
\* assigned value.
C15_TrailAndAssignmentAgree ==
    pc = "idle" =>
        \A v \in 0 .. num_variables - 1 :
            /\ Assigned(v) <=> Cardinality(TrailEntriesOf(v)) = 1
            /\ \A i \in TrailEntriesOf(v) :
                  LitAssignment(trail.entries[i].lit) = Get(assignments, v)

\* C16: whenever propagate returns Conflict the propagation queue is empty
\* on return.
C16_QueueEmptyOnConflict ==
    (op.name = "propagate" /\ op.res = "Conflict") => propagation_queue = <<>>

\* C17: after any call of register_new_variables, Ok or not, the trail, the
\* variable assignment and the watch list cover the same number of
\* variables, the tracked total; a failed call leaves all of them as they
\* were.
C17_StructuresCoverTheTotal ==
    [][op'.name = "register_new_variables" =>
          /\ trail'.len = num_variables'
          /\ Len(assignments') = num_variables'
          /\ watchers'.len = num_variables'
          /\ op'.res = "Err" =>
                /\ trail' = trail
                /\ assignments' = assignments
                /\ watchers' = watchers
                /\ num_variables' = num_variables]_vars

\* The literals whose watch list holds clause id.
WatchersOf(id) == {l \in Literals(VarLimit) : id \in watchers.lists[l]}

ClauseLiterals(id) == {clause_db[id][i] : i \in DOMAIN clause_db[id]}

\* Clause id is watched by exactly two distinct literals of its own.
WatchedByTwo(id) ==
    Cardinality(WatchersOf(id)) = 2 /\ WatchersOf(id) \subseteq ClauseLiterals(id)

\* The watched literals of clause id are not all false.
WatchNotAllFalse(id) ==
    \E l \in WatchersOf(id) : IsSatisfied(assignments, l) # "false"

\* Some literal of clause id is true.
IsSatisfiedClause(id) ==
    \E l \in ClauseLiterals(id) : IsSatisfied(assignments, l) = "true"

\* C18 as stated: in every state in which propagate has returned Consistent,
\* whatever the interleaving of initialize_watchers, enqueue_assumption,
\* propagate and reset_to_level, every clause of at least 2 literals is
\* watched by exactly two distinct literals of that clause and these are not
\* both false; reset_to_level leaves every watch set unchanged.
C18_TwoWatchedLiterals ==
    [][/\ ReturnedConsistent' =>
            \A id \in ClauseIds' :
                Len(clause_db'[id]) >= 2 => WatchedByTwo(id)' /\ WatchNotAllFalse(id)'
       /\ op'.name = "reset_to_level" => watchers' = watchers]_vars

\* C18 amended: the two watched literals are not both false in a clause
\* that no literal satisfies, when every clause was registered before any
\* assignment and no propagate call has returned Conflict.
C18_TwoWatchedLiteralsOfOpenClauses ==
    [][/\ ReturnedConsistent' =>
            \A id \in ClauseIds' :
                Len(clause_db'[id]) >= 2 =>
                    /\ WatchedByTwo(id)'
                    /\ (~late_init' /\ ~conflicted' /\ ~IsSatisfiedClause(id)') =>
                           WatchNotAllFalse(id)'
       /\ op'.name = "reset_to_level" => watchers' = watchers]_vars

\* propagate has returned Consistent, a clause of three literals that no
\* literal satisfies has its first literal false and its watch moved to the
\* third one.
C18_Witness ==
    /\ ReturnedConsistent /\ ~late_init /\ ~conflicted
    /\ \E id \in ClauseIds :
        /\ Len(clause_db[id]) = 3
        /\ ~IsSatisfiedClause(id)
        /\ IsSatisfied(assignments, clause_db[id][1]) = "false"
        /\ WatchersOf(id) = {clause_db[id][2], clause_db[id][3]}

\* The number of registered variables without a value.
UnassignedCount ==
    Cardinality({v \in 0 .. num_variables - 1 : Get(assignments, v) = "None"})

\* C19: every propagate call terminates, returning Consistent or Conflict
\* after at most as many commits as there were unassigned registered
\* variables at its start: every iteration of the loop goes on or returns
\* Conflict, and its commit takes one variable out of the unassigned ones,
\* so their number bounds the iterations and the call ends by a return.
C19_PropagateTerminates ==
    [][(propagation_queue # <<>> /\ op'.name = "propagate") =>
          /\ op'.res \in {"running", "Conflict"}
          /\ UnassignedCount' = UnassignedCount - 1]_vars

\* ==================================================================== Model
\* The largest length a BoundedBitmap can be grown to.
BitmapLimit == 3

\* BoundedBitmap::increase_len: grows to at least new_len entries.
BitmapIncreaseLen(bitmap, new_len) ==
    IF new_len > BitmapLimit THEN [ok |-> FALSE, bitmap |-> bitmap]
    ELSE [ok |-> TRUE,
          bitmap |-> IF new_len <= Len(bitmap) THEN bitmap
                     ELSE bitmap \o [i \in 1 .. new_len - Len(bitmap) |-> "False"]]

\* BoundedBitmap::set
BitmapSet(bitmap, index, value) ==
    IF index < Len(bitmap)
    THEN [ok |-> TRUE, bitmap |-> [bitmap EXCEPT ![index + 1] = value]]
    ELSE [ok |-> FALSE, bitmap |-> bitmap]

\* Assignment::is_assignment_complete: every registered variable has a value.
IsAssignmentComplete(a) == \A i \in DOMAIN a : a[i] \in VarAssignment

\* The loop of Model::from_reuse over the assignment's variables, from
\* variable index on.
RECURSIVE CopyAssignment(_, _, _)
CopyAssignment(bitmap, a, index) ==
    IF index >= Len(a) THEN [res |-> "Ok", model |-> bitmap]
    ELSE IF a[index + 1] \notin VarAssignment
         THEN [res |-> "Panic", model |-> bitmap]
    ELSE LET r == BitmapSet(bitmap, index, a[index + 1]) IN
         IF ~r.ok THEN [res |-> "VariableIndexOutOfRange", model |-> r.bitmap]
         ELSE CopyAssignment(r.bitmap, a, index + 1)

\* from_reuse that grows the model before it looks at the assignment.
FromReuse_GrowsFirst(model, a) ==
    LET grown == BitmapIncreaseLen(model, Len(a)) IN
    IF ~grown.ok THEN [res |-> "UsedTooManyVariables", model |-> grown.bitmap]
    ELSE IF ~IsAssignmentComplete(a)
         THEN [res |-> "IndeterminateAssignment", model |-> grown.bitmap]
    ELSE CopyAssignment(grown.bitmap, a, 0)

\* from_reuse that grows the model and copies no value into it.
FromReuse_GrowsOnly(model, a) ==
    IF ~IsAssignmentComplete(a)
    THEN [res |-> "IndeterminateAssignment", model |-> model]
    ELSE LET grown == BitmapIncreaseLen(model, Len(a)) IN
         IF ~grown.ok THEN [res |-> "UsedTooManyVariables", model |-> grown.bitmap]
         ELSE [res |-> "Ok", model |-> grown.bitmap]

\* Model::from_reuse: its result and the model it leaves.
FromReuse(model, a) ==
    IF ~IsAssignmentComplete(a)
    THEN [res |-> "IndeterminateAssignment", model |-> model]
    ELSE LET grown == BitmapIncreaseLen(model, Len(a)) IN
         IF ~grown.ok THEN [res |-> "UsedTooManyVariables", model |-> grown.bitmap]
         ELSE CopyAssignment(grown.bitmap, a, 0)

\* The assignments a driver may hand over: each variable true, false or
\* unassigned.
GivenAssignments ==
    UNION {[1 .. n -> VarAssignment \cup {"None"}] : n \in 0 .. MaxModelVars}

\* Model::default
ModelInit ==
    /\ num_variables = 0
    /\ trail = [entries |-> <<>>, level |-> 0, len |-> 0]
    /\ assignments = <<>>
    /\ watchers = NoWatchers
    /\ propagation_queue = <<>>
    /\ clause_db = <<>>
    /\ pc = "model"
    /\ op = NoOp
    /\ fifo = <<>>
    /\ NoHistory

\* A call of Model::from_reuse on the target model.
ModelFromReuse(a) ==
    /\ LET r == FromReuse(last_model, a) IN
        /\ last_model' = r.model
        /\ op' = [NoOp EXCEPT !.name = "from_reuse", !.res = r.res]
    /\ given' = a
    /\ UNCHANGED <<num_variables, trail, assignments, watchers,
                   propagation_queue, clause_db, pc, fifo, history>>

ModelNext == \E a \in GivenAssignments : ModelFromReuse(a)

SpecModel == ModelInit /\ [][ModelNext]_vars

\* ------------------------------------------------------ claims on Model
FromReuseFailed ==
    op.name = "from_reuse"
    /\ op.res \in {"IndeterminateAssignment", "UsedTooManyVariables",
                   "VariableIndexOutOfRange"}

\* C10: whenever Model::from_reuse returns an error the target Model is as
\* it was before the call: same length, same value for every variable.
C10_FailedFromReuseLeavesModel ==
    [][FromReuseFailed' => last_model' = last_model]_vars

\* A non-empty model, handed an assignment with more variables of which one
\* has no value: from_reuse has returned IndeterminateAssignment.
C10_Witness ==
    /\ FromReuseFailed /\ op.res = "IndeterminateAssignment"
    /\ last_model # <<>> /\ Len(given) > Len(last_model)

\* ================================================================ LastModel
\* The live assignment as Model::from_reuse reads it: one entry for every
\* registered variable, its value or "None".
LiveAssignment ==
    [i \in 1 .. num_variables |->
        IF Assigned(i - 1) THEN Get(assignments, i - 1) ELSE "None"]

\* LastModel::get
LastModelGet == last_model

\* LastModel::update on the live assignment: from_reuse on the held model;
\* an error of from_reuse panics (expect).
LastModelUpdate ==
    /\ pc = "idle"
    /\ LET r == FromReuse(last_model, LiveAssignment) IN
        /\ last_model' = r.model
        /\ pc' = IF r.res = "Ok" THEN pc ELSE "panicked"
        /\ op' = [NoOp EXCEPT !.name = "update",
                              !.res = IF r.res = "Ok" THEN "Ok" ELSE "Panic"]
    /\ UNCHANGED <<given, num_variables, trail, assignments, watchers,
                   propagation_queue, clause_db, fifo, history>>

\* The orchestrator of SpecTrail with a LastModel beside it.
LastModelNext ==
    \/ TrailNext
    \/ LastModelUpdate

SpecLastModel == Init /\ [][LastModelNext]_vars

\* ---------------------------------------------------- claims on LastModel
\* C11: before any update get returns the model with no variables; after a
\* successful update get returns a Model that maps every registered variable
\* to the value it had in the assignment at the time of the update; no other
\* operation (enqueue_assumption, propagate, reset_to_level,
\* register_new_variables) changes the Model that get returns.
C11_LastModelIsSnapshot ==
    /\ LastModelGet = <<>>
    /\ [][/\ (op'.name = "update" /\ op'.res = "Ok") =>
               /\ Len(LastModelGet') = num_variables
               /\ \A v \in 0 .. num_variables - 1 :
                     LastModelGet'[v + 1] = Get(assignments, v)
          /\ op'.name # "update" => LastModelGet' = LastModelGet]_vars

\* A model with a true variable is held, a variable was registered after the
\* update and propagate has committed it.
C11_Witness ==
    /\ op.name = "propagate"
    /\ \E v \in DOMAIN LastModelGet : LastModelGet[v] = "True"
    /\ num_variables > Len(LastModelGet)
    /\ Assigned(Len(LastModelGet))

====
